---- MODULE Spec2Model ----
(***************************************************************************)
(* State-machine model of the chat view component `App` of                 *)
(* minagishl/message and of the backend objects it talks to (the messages  *)
(* table, the auth provider, the two realtime channels, localStorage and   *)
(* the scroll container).                                                  *)
(*                                                                         *)
(* The repository carries the component in more than one revision.  The    *)
(* model follows the revision that has every feature the specification     *)
(* describes (typing indicators, the persisted notification flag, the      *)
(* scroll effect): supabase/migrations/20250119063339_blue_sea.sql lines   *)
(* 283-764.  src/App.tsx has the same handlers for login, logout, submit,  *)
(* the mount effect and the load-more fetch; where it differs a comment    *)
(* says so.                                                                *)
(*                                                                         *)
(* Modelling decisions:                                                    *)
(*  - one action per handler, callback or backend step; a React effect     *)
(*    that a state change triggers is part of the action that changes the  *)
(*    state;                                                               *)
(*  - a request is split into the steps the event loop can interleave:     *)
(*    issue (client), execution (backend) and completion (client);         *)
(*  - created_at is the table's clock, which gives every row its own       *)
(*    value; reads are made by a client that may read every row;           *)
(*  - time is counted in units of 1000 ms;                                 *)
(*  - `op` marks the steps of the handlers a property speaks about by      *)
(*    name, such as "a submit action" that changes nothing.                *)
(***************************************************************************)
EXTENDS Naturals, Integers, Sequences, FiniteSets, TLC

(***************************************************************************)
(* Bounds of the model.                                                    *)
(***************************************************************************)
\* page size of the message queries, 50 in the source, scaled down
MESSAGES_PER_PAGE == 2
\* rows the messages table can hold
MaxStore == 3
\* initial-load requests that can be in flight together
MaxInitFetches == 1
\* insert requests that can be in flight together
MaxInserts == 1
\* typing broadcasts that can be in flight together
MaxBroadcasts == 1
\* length of the draft text
MaxDraftLen == 1
\* last instant of the clock
MaxTime == 6
\* error notifications counted
MaxToasts == 1
\* page reloads
MaxReloads == 1

(***************************************************************************)
(* Program constants (time in units of 1000 ms).                           *)
(***************************************************************************)
TYPING_TIMEOUT == 3
SWEEP_INTERVAL == 1
\* height of the scroll container's viewport, in message rows
ViewHeight == 2

Users == {"u1", "u2"}
\* the users of other clients that write to the table
OtherUsers == {"u2"}
NoSession == "null"
NoItem == "null"
NoTimer == 0 - 1
NoRaf == 0 - 1
NoOffset == 0 - 1
Chars == {"a", " "}
\* a user id without an entry in typingUsers
NoEntry == [user_name |-> "", timestamp |-> -1]
\* the template buttons' texts
TEMPLATE_MESSAGES == {<<"a">>, <<"b">>}

\* session.user.user_metadata.user_name
user_name(u) == IF u = "u1" THEN "alice" ELSE "bob"

VARIABLES
  session,              \* useState<Session | null>: NoSession or the user's id
  authSession,          \* the auth provider's session (survives a reload)
  getSessionPending,    \* the mount effect's getSession() promise is unresolved
  signOutPending,       \* handleLogout awaits signOut()
  newMessage,           \* the draft, a sequence of characters
  inserts,              \* insert requests in flight
  broadcasts,           \* typing broadcasts in flight
  messages,             \* the displayed list of rows
  hasMore,
  isLoading,
  loadingTimer,         \* the setTimeout(..., 1000) of fetchMessages is pending
  initFetches,          \* requests of the mount effect's fetchMessages in flight
  moreFetch,            \* the call of fetchMessages(offset) in progress: "sent",
                        \* "done" (answered), "applied" (waiting for its timer)
  chan,                 \* the "messages" channel: "joining" or "joined"
  feed,                 \* INSERT events on their way to the client
  store,                \* the messages table
  isNotificationEnabled,
  localStorage,         \* item "isNotificationEnabled": NoItem, "true", "false"
  scrollTop,            \* of the element with id "messages"
  raf,                  \* distanceFromBottom of a pending requestAnimationFrame
  typingUsers,          \* user id -> [user_name, timestamp] or NoEntry
  interval,             \* instant of the sweep timer's next run, or NoTimer
  now,                  \* Date.now()
  toasts,               \* error notifications raised
  epoch,                \* page loads so far
  mounted,              \* the component is mounted
  lastOffset,           \* history: the offset of the last load-more that
                        \* succeeded on this page, or NoOffset
  active,               \* what the effects have set up and not cleaned up: the
                        \* number of "messages" channels, "typing" channels,
                        \* auth listeners and sweep timers
  op                    \* the handler whose step led to the state, for the
                        \* handlers a property names: "handleSendMessage" (the
                        \* one handler that can return without a change of
                        \* state), "insertFailed" (its error branch),
                        \* "inputChange", "onTyping"; "-" after any other step

authVars == <<session, authSession, getSessionPending, signOutPending>>
draftVars == <<newMessage, inserts, broadcasts>>
listVars == <<messages, hasMore, isLoading, loadingTimer, initFetches, moreFetch>>
chanVars == <<chan, feed>>
notifVars == <<isNotificationEnabled, localStorage>>
scrollVars == <<scrollTop, raf>>
typingVars == <<typingUsers, interval>>
vars == <<authVars, draftVars, listVars, chanVars, store, notifVars, scrollVars,
          typingVars, now, toasts, epoch, mounted, active,
          lastOffset, op>>

(***************************************************************************)
(* Pure helpers.                                                           *)
(***************************************************************************)
Max(a, b) == IF a > b THEN a ELSE b
Min(a, b) == IF a < b THEN a ELSE b

\* Array.prototype.reverse
RECURSIVE reverse(_)
reverse(s) == IF s = <<>> THEN <<>> ELSE Append(reverse(Tail(s)), Head(s))

\* String.prototype.trim: drops leading and trailing white space
RECURSIVE trimStart(_)
trimStart(s) == IF s # <<>> /\ Head(s) = " " THEN trimStart(Tail(s)) ELSE s
trim(s) == reverse(trimStart(reverse(trimStart(s))))

\* every draft the input can hold
Drafts == UNION {[1..n -> Chars] : n \in 0..MaxDraftLen}

\* .order("created_at", { ascending: false }): the rows, newest first
RECURSIVE orderDesc(_)
orderDesc(rows) ==
  IF rows = {} THEN <<>>
  ELSE LET top == CHOOSE r \in rows : \A q \in rows : q.created_at <= r.created_at
       IN <<top>> \o orderDesc(rows \ {top})

\* .range(from, to): the elements at the 0-based positions from..to
range(s, from, to) == SubSeq(s, from + 1, Min(to + 1, Len(s)))

rowsOf(s) == {s[i] : i \in 1..Len(s)}

\* select * from messages order by created_at desc, range(offset, offset + limit - 1)
selectPage(table, offset, limit) ==
  range(orderDesc(rowsOf(table)), offset, offset + limit - 1)

(***************************************************************************)
(* The scroll container (id "messages"): the load-more button and every    *)
(* message are one row high.                                               *)
(***************************************************************************)
scrollHeight(msgs, more) == Max(ViewHeight, Len(msgs) + (IF more THEN 1 ELSE 0))
maxScrollTop(msgs, more) == scrollHeight(msgs, more) - ViewHeight
clampScroll(top, msgs, more) == Max(0, Min(top, maxScrollTop(msgs, more)))

\* useEffect(..., [messages, isLoading]): after a render in which one of the
\* two changed, scroll to the end unless a load-more is in progress; the
\* browser keeps scrollTop within the new extent otherwise
scrollEffect(top, msgs, more, loading) ==
  IF ~loading THEN maxScrollTop(msgs, more) ELSE clampScroll(top, msgs, more)

\* useEffect(..., [session]): the typing channel and the sweep timer exist
\* while there is a session; every new session object restarts the timer
typingEffect(s) == IF s = NoSession THEN NoTimer ELSE now + SWEEP_INTERVAL

\* useState(window.localStorage.getItem("isNotificationEnabled") === "true" || false)
initialNotification(item) == (item = "true") \/ FALSE

\* value.toString()
toString(b) == IF b THEN "true" ELSE "false"

\* useEffect(..., []): onAuthStateChange(...) and, as its cleanup,
\* authListener.subscription.unsubscribe()
authSetup(a) == [a EXCEPT !.authListener = @ + 1]
authCleanup(a) == [a EXCEPT !.authListener = @ - 1]

\* useEffect(..., [isNotificationEnabled]): channel("messages")...subscribe()
\* and, as its cleanup, removeChannel(channel)
messagesSetup(a) == [a EXCEPT !.messagesChannel = @ + 1]
messagesCleanup(a) == [a EXCEPT !.messagesChannel = @ - 1]

\* useEffect(..., [session]): if (!session) return; channel("typing")...
\* subscribe() and setInterval(...); as its cleanup removeChannel(channel) and
\* clearInterval(interval); a run that returned early has no cleanup
sessionSetup(a, s) ==
  IF s = NoSession THEN a
  ELSE [a EXCEPT !.typingChannel = @ + 1, !.interval = @ + 1]
\* variant: the cleanup removes the channel and leaves the timer
sessionCleanup_timerKept(a, s) ==
  IF s = NoSession THEN a
  ELSE [a EXCEPT !.typingChannel = @ - 1]

sessionCleanup(a, s) ==
  IF s = NoSession THEN a
  ELSE [a EXCEPT !.typingChannel = @ - 1, !.interval = @ - 1]

\* a change of session from old to new: the cleanup of the effect's last run,
\* then the effect; null after null is no change of state
sessionRerun(a, old, new) ==
  IF old = NoSession /\ new = NoSession THEN a
  ELSE sessionSetup(sessionCleanup(a, old), new)

\* a change of isNotificationEnabled: cleanup, then the effect
messagesRerun(a) == messagesSetup(messagesCleanup(a))

\* nothing set up
noneActive == [messagesChannel |-> 0, typingChannel |-> 0, authListener |-> 0,
               interval |-> 0]

\* the three effects' first runs, with session null
mountEffects == sessionSetup(messagesSetup(authSetup(noneActive)), NoSession)

\* an insert request the backend has answered with { error: null }
doneInsert(req) == [req EXCEPT !.stage = "done"]
idleFetch == [stage |-> "idle", offset |-> 0, data |-> <<>>]
\* asOf: the number of rows the table had when the query ran
sentFetch == [stage |-> "sent", data |-> <<>>, asOf |-> 0]

(***************************************************************************)
(* The state after the component is constructed and its mount effects have *)
(* run: getSession() is pending, the first page is requested, the          *)
(* "messages" channel is joining.                                          *)
(***************************************************************************)
mount(item) ==
  /\ session = NoSession
  /\ getSessionPending = TRUE
  /\ signOutPending = FALSE
  /\ newMessage = <<>>
  /\ messages = <<>>
  /\ hasMore = TRUE
  /\ isLoading = FALSE
  /\ loadingTimer = FALSE
  /\ initFetches = <<sentFetch>>
  /\ moreFetch = idleFetch
  /\ chan = "joining"
  /\ feed = <<>>
  /\ isNotificationEnabled = initialNotification(item)
  /\ scrollTop = 0
  /\ raf = NoRaf
  /\ typingUsers = [u \in Users |-> NoEntry]
  /\ interval = NoTimer
  /\ mounted = TRUE
  /\ active = mountEffects
  /\ lastOffset = NoOffset

Init ==
  /\ mount(NoItem)
  /\ localStorage = NoItem
  /\ authSession = NoSession
  /\ inserts = <<>>
  /\ broadcasts = <<>>
  /\ store = <<>>
  /\ now = 0
  /\ toasts = 0
  /\ epoch = 0
  /\ op = "-"

(***************************************************************************)
(* Authentication.                                                         *)
(***************************************************************************)
\* the [session] effect runs again for every new session object; null after
\* null is no change of state
sessionEffect(old, new) ==
  IF old = NoSession /\ new = NoSession THEN interval ELSE typingEffect(new)

\* supabase.auth.getSession().then(({ data: { session } }) => setSession(session))
getSession ==
  /\ mounted
  /\ getSessionPending
  /\ getSessionPending' = FALSE
  /\ session' = authSession
  /\ interval' = sessionEffect(session, authSession)
  /\ active' = sessionRerun(active, session, authSession)
  /\ op' = "-"
  /\ UNCHANGED <<authSession, signOutPending, draftVars, listVars, chanVars, store,
                 notifVars, scrollVars, typingUsers, now, toasts, epoch,
                 mounted, lastOffset>>

\* the listener of onAuthStateChange: the provider reports a sign-in, a
\* refreshed token or a sign-out that this component did not ask for
onAuthStateChange(s) ==
  /\ mounted
  /\ authSession' = s
  /\ session' = s
  /\ interval' = sessionEffect(session, s)
  /\ active' = sessionRerun(active, session, s)
  /\ op' = "-"
  /\ UNCHANGED <<getSessionPending, signOutPending, draftVars, listVars, chanVars,
                 store, notifVars, scrollVars, typingUsers, now, toasts, epoch,
                 mounted, lastOffset>>

\* handleLogin: signInWithOAuth hands the page to the provider; the component
\* itself only reports an error
handleLogin(failed) ==
  /\ mounted
  /\ session = NoSession
  /\ IF failed THEN toasts < MaxToasts /\ toasts' = toasts + 1
               ELSE toasts' = toasts
  /\ op' = "-"
  /\ UNCHANGED <<authVars, draftVars, listVars, chanVars, store, notifVars,
                 scrollVars, typingVars, now, epoch, mounted, active, lastOffset>>

\* handleLogout up to its await
handleLogout ==
  /\ mounted
  /\ session # NoSession
  /\ ~signOutPending
  /\ signOutPending' = TRUE
  /\ op' = "-"
  /\ UNCHANGED <<session, authSession, getSessionPending, draftVars, listVars,
                 chanVars, store, notifVars, scrollVars, typingVars, now, toasts,
                 epoch, mounted, active, lastOffset>>

\* variant: the sign-out does not reach the component's session
signOutCompleted_sessionKept ==
  /\ mounted
  /\ signOutPending
  /\ signOutPending' = FALSE
  /\ authSession' = NoSession
  /\ op' = "-"
  /\ UNCHANGED <<session, getSessionPending, draftVars, listVars, chanVars, store,
                 notifVars, scrollVars, typingVars, now, toasts, epoch,
                 mounted, active, lastOffset>>

\* signOut() succeeds: the provider drops the session and tells the listener
signOutCompleted ==
  /\ mounted
  /\ signOutPending
  /\ signOutPending' = FALSE
  /\ authSession' = NoSession
  /\ session' = NoSession
  /\ interval' = sessionEffect(session, NoSession)
  /\ active' = sessionRerun(active, session, NoSession)
  /\ op' = "-"
  /\ UNCHANGED <<getSessionPending, draftVars, listVars, chanVars, store, notifVars,
                 scrollVars, typingUsers, now, toasts, epoch, mounted, lastOffset>>

\* signOut() fails: if (error) toast.error("Failed to logout")
signOutFailed ==
  /\ mounted
  /\ signOutPending
  /\ toasts < MaxToasts
  /\ signOutPending' = FALSE
  /\ toasts' = toasts + 1
  /\ op' = "-"
  /\ UNCHANGED <<session, authSession, getSessionPending, draftVars, listVars,
                 chanVars, store, notifVars, scrollVars, typingVars, now, epoch,
                 mounted, active, lastOffset>>

\* what the form renders: disabled={!session} on the input and on the button
inputDisabled == session = NoSession

(***************************************************************************)
(* The draft, submitting and the typing broadcast.                         *)
(***************************************************************************)
\* the payload of handleTyping
typingPayload(s) == [user_id |-> s, user_name |-> user_name(s)]

\* handleTyping: if (!session) return; channel("typing").send(...)
handleTyping(s, out) == IF s = NoSession THEN out ELSE Append(out, typingPayload(s))

\* the input's onChange: setNewMessage(e.target.value); handleTyping()
inputChange(v) ==
  /\ mounted
  /\ ~inputDisabled
  /\ v # newMessage
  /\ Len(broadcasts) < MaxBroadcasts
  /\ newMessage' = v
  /\ broadcasts' = handleTyping(session, broadcasts)
  /\ op' = "inputChange"
  /\ UNCHANGED <<authVars, inserts, listVars, chanVars, store, notifVars, scrollVars,
                 typingVars, now, toasts, epoch, mounted, active, lastOffset>>

\* a template button's onClick; the buttons are rendered while there is a session
templateClick(t) ==
  /\ mounted
  /\ session # NoSession
  /\ newMessage' = t
  /\ op' = "-"
  /\ UNCHANGED <<authVars, inserts, broadcasts, listVars, chanVars, store, notifVars,
                 scrollVars, typingVars, now, toasts, epoch, mounted, active,
                 lastOffset>>

\* a typing broadcast leaves the client's socket
broadcastSent ==
  /\ broadcasts # <<>>
  /\ broadcasts' = Tail(broadcasts)
  /\ op' = "-"
  /\ UNCHANGED <<authVars, newMessage, inserts, listVars, chanVars, store, notifVars,
                 scrollVars, typingVars, now, toasts, epoch, mounted, active,
                 lastOffset>>

\* variant: user_id taken from user_metadata.user_name
insertRow_userName(s, draft) ==
  [content |-> draft, user_id |-> user_name(s), user_name |-> user_name(s)]

\* the row handleSendMessage inserts
insertRow(s, draft) == [content |-> draft, user_id |-> s, user_name |-> user_name(s)]

\* variant: if (!newMessage || !session) return
sendGuard_noTrim(s, draft) == ~(draft = <<>> \/ s = NoSession)

\* if (!newMessage.trim() || !session) return
sendGuard(s, draft) == ~(trim(draft) = <<>> \/ s = NoSession)

\* handleSendMessage up to its await
handleSendMessage ==
  /\ mounted
  /\ IF sendGuard(session, newMessage)
       THEN /\ Len(inserts) < MaxInserts
            /\ inserts' = Append(inserts, [row |-> insertRow(session, newMessage),
                                           stage |-> "sent"])
       ELSE inserts' = inserts
  /\ op' = "handleSendMessage"
  /\ UNCHANGED <<authVars, newMessage, broadcasts, listVars, chanVars, store,
                 notifVars, scrollVars, typingVars, now, toasts, epoch,
                 mounted, active, lastOffset>>

\* the table gives a new row its id (gen_random_uuid()) and created_at (now());
\* a stored row is modelled by its id and created_at; the author and the text
\* are columns that only the rendering of a message reads back
insertInto(table, row) ==
  Append(table, [id |-> Len(table) + 1, created_at |-> Len(table) + 1])

\* a joined channel gets the INSERT event
publish(table) == IF chan = "joined" THEN Append(feed, table[Len(table)]) ELSE feed

removeAt(s, i) == SubSeq(s, 1, i - 1) \o SubSeq(s, i + 1, Len(s))

\* the backend executes an insert request
execInsert(i) ==
  /\ inserts[i].stage = "sent"
  /\ Len(store) < MaxStore
  /\ store' = insertInto(store, inserts[i].row)
  /\ feed' = publish(store')
  /\ inserts' = [inserts EXCEPT ![i] = doneInsert(inserts[i])]
  /\ op' = "-"
  /\ UNCHANGED <<authVars, newMessage, broadcasts, listVars, chan, notifVars,
                 scrollVars, typingVars, now, toasts, epoch, mounted, active,
                 lastOffset>>

\* handleSendMessage after its await, no error: setNewMessage("")
insertCompleted(i) ==
  /\ mounted
  /\ inserts[i].stage = "done"
  /\ inserts' = removeAt(inserts, i)
  /\ newMessage' = <<>>
  /\ op' = "-"
  /\ UNCHANGED <<authVars, broadcasts, listVars, chanVars, store, notifVars,
                 scrollVars, typingVars, now, toasts, epoch, mounted, active,
                 lastOffset>>

\* variant: the error branch falls through to setNewMessage("")
insertFailed_draftCleared(i) ==
  /\ mounted
  /\ toasts < MaxToasts
  /\ inserts' = removeAt(inserts, i)
  /\ toasts' = toasts + 1
  /\ newMessage' = <<>>
  /\ op' = "insertFailed"
  /\ UNCHANGED <<authVars, broadcasts, listVars, chanVars, store, notifVars,
                 scrollVars, typingVars, now, epoch, mounted, active, lastOffset>>

\* handleSendMessage after its await, error: toast.error("Failed to send message")
insertFailed(i) ==
  /\ mounted
  /\ toasts < MaxToasts
  /\ inserts' = removeAt(inserts, i)
  /\ toasts' = toasts + 1
  /\ op' = "insertFailed"
  /\ UNCHANGED <<authVars, newMessage, broadcasts, listVars, chanVars, store,
                 notifVars, scrollVars, typingVars, now, epoch, mounted, active,
                 lastOffset>>

\* another client (or a request this page sent before a reload) inserts a row
otherInsert(u) ==
  /\ u \in OtherUsers
  /\ Len(store) < MaxStore
  /\ store' = insertInto(store, insertRow(u, <<"a">>))
  /\ feed' = publish(store')
  /\ op' = "-"
  /\ UNCHANGED <<authVars, draftVars, listVars, chan, notifVars, scrollVars,
                 typingVars, now, toasts, epoch, mounted, active, lastOffset>>

(***************************************************************************)
(* The displayed list: the mount effect's fetch, the INSERT feed and the   *)
(* load-more fetch.                                                        *)
(***************************************************************************)
\* the backend executes .order("created_at", { ascending: false }).limit(50)
execInitFetch(i) ==
  /\ initFetches[i].stage = "sent"
  /\ initFetches' = [initFetches EXCEPT
                       ![i] = [stage |-> "done",
                               data |-> selectPage(store, 0, MESSAGES_PER_PAGE),
                               asOf |-> Len(store)]]
  /\ op' = "-"
  /\ UNCHANGED <<authVars, draftVars, messages, hasMore, isLoading, loadingTimer,
                 moreFetch, chanVars, store, notifVars, scrollVars, typingVars, now,
                 toasts, epoch, mounted, active, lastOffset>>

\* variant: setMessages(data || []), the rows as the query returns them
initFetchCompleted_noReverse(i) ==
  /\ mounted
  /\ initFetches[i].stage = "done"
  /\ messages' = initFetches[i].data
  /\ initFetches' = removeAt(initFetches, i)
  /\ scrollTop' = scrollEffect(scrollTop, messages', hasMore, isLoading)
  /\ op' = "-"
  /\ UNCHANGED <<authVars, draftVars, hasMore, isLoading, loadingTimer, moreFetch,
                 chanVars, store, notifVars, raf, typingVars, now, toasts, epoch,
                 mounted, active, lastOffset>>

\* the effect's fetchMessages after its await: setMessages(data.reverse() || [])
initFetchCompleted(i) ==
  /\ mounted
  /\ initFetches[i].stage = "done"
  /\ messages' = reverse(initFetches[i].data)
  /\ initFetches' = removeAt(initFetches, i)
  /\ scrollTop' = scrollEffect(scrollTop, messages', hasMore, isLoading)
  /\ op' = "-"
  /\ UNCHANGED <<authVars, draftVars, hasMore, isLoading, loadingTimer, moreFetch,
                 chanVars, store, notifVars, raf, typingVars, now, toasts, epoch,
                 mounted, active, lastOffset>>

\* the effect's fetchMessages after its await: toast.error("Failed to fetch messages")
initFetchFailed(i) ==
  /\ mounted
  /\ initFetches[i].stage = "sent"
  /\ toasts < MaxToasts
  /\ initFetches' = removeAt(initFetches, i)
  /\ toasts' = toasts + 1
  /\ op' = "-"
  /\ UNCHANGED <<authVars, draftVars, messages, hasMore, isLoading, loadingTimer,
                 moreFetch, chanVars, store, notifVars, scrollVars, typingVars, now,
                 epoch, mounted, active, lastOffset>>

\* the "messages" channel reports SUBSCRIBED
channelJoined ==
  /\ mounted
  /\ chan = "joining"
  /\ chan' = "joined"
  /\ op' = "-"
  /\ UNCHANGED <<authVars, draftVars, listVars, feed, store, notifVars, scrollVars,
                 typingVars, now, toasts, epoch, mounted, active, lastOffset>>

\* the postgres_changes handler: setMessages((prev) => [...prev, newMessage])
onInsert ==
  /\ mounted
  /\ feed # <<>>
  /\ messages' = Append(messages, Head(feed))
  /\ feed' = Tail(feed)
  /\ scrollTop' = scrollEffect(scrollTop, messages', hasMore, isLoading)
  /\ op' = "-"
  /\ UNCHANGED <<authVars, draftVars, hasMore, isLoading, loadingTimer, initFetches,
                 moreFetch, chan, store, notifVars, raf, typingVars, now, toasts,
                 epoch, mounted, active, lastOffset>>

\* the load-more button is rendered while hasMore and enabled while !isLoading
loadMoreShown == hasMore

\* variant: the button without disabled={isLoading}
loadMoreEnabled_notDisabled == hasMore
loadMoreEnabled == hasMore /\ ~isLoading

\* onClick={() => fetchMessages(messages.length)} up to the await:
\* setIsLoading(true) and the request with range(offset, offset + 49)
fetchMessages ==
  /\ mounted
  /\ loadMoreEnabled
  /\ isLoading' = TRUE
  /\ moreFetch' = [stage |-> "sent", offset |-> Len(messages), data |-> <<>>]
  /\ scrollTop' = scrollEffect(scrollTop, messages, hasMore, TRUE)
  /\ op' = "-"
  /\ UNCHANGED <<authVars, draftVars, messages, hasMore, loadingTimer, initFetches,
                 chanVars, store, notifVars, raf, typingVars, now, toasts, epoch,
                 mounted, active, lastOffset>>

\* the backend executes the load-more query
execMoreFetch ==
  /\ moreFetch.stage = "sent"
  /\ moreFetch' = [moreFetch EXCEPT
                     !.stage = "done",
                     !.data = selectPage(store, moreFetch.offset, MESSAGES_PER_PAGE)]
  /\ op' = "-"
  /\ UNCHANGED <<authVars, draftVars, messages, hasMore, isLoading, loadingTimer,
                 initFetches, chanVars, store, notifVars, scrollVars, typingVars, now,
                 toasts, epoch, mounted, active, lastOffset>>

\* variant: if (data.length === 0) setHasMore(false)
hasMoreAfter_onlyEmpty(more, data) == IF Len(data) = 0 THEN FALSE ELSE more

\* if (data.length < MESSAGES_PER_PAGE) setHasMore(false)
hasMoreAfter(more, data) == IF Len(data) < MESSAGES_PER_PAGE THEN FALSE ELSE more

\* offset === 0 ? data.reverse() : [...data.reverse(), ...prev]
messagesAfter(prev, offset, data) ==
  IF offset = 0 THEN reverse(data) ELSE reverse(data) \o prev

\* fetchMessages after its await, no error: distanceFromBottom is read, hasMore
\* and messages are set, the scroll position is restored in the next animation
\* frame and isLoading is reset 1000 ms later (at once in src/App.tsx)
moreFetchCompleted ==
  /\ mounted
  /\ moreFetch.stage = "done"
  /\ hasMore' = hasMoreAfter(hasMore, moreFetch.data)
  /\ messages' = messagesAfter(messages, moreFetch.offset, moreFetch.data)
  /\ raf' = IF moreFetch.offset = 0 THEN raf
            ELSE scrollHeight(messages, hasMore) - scrollTop
  /\ loadingTimer' = TRUE
  /\ moreFetch' = [moreFetch EXCEPT !.stage = "applied", !.data = <<>>]
  /\ scrollTop' = scrollEffect(scrollTop, messages', hasMore', isLoading)
  /\ lastOffset' = moreFetch.offset
  /\ op' = "-"
  /\ UNCHANGED <<authVars, draftVars, isLoading, initFetches, chanVars, store,
                 notifVars, typingVars, now, toasts, epoch, mounted, active>>

\* variant: the error branch returns without setIsLoading(false)
moreFetchFailed_loadingKept ==
  /\ mounted
  /\ moreFetch.stage = "sent"
  /\ toasts < MaxToasts
  /\ toasts' = toasts + 1
  /\ moreFetch' = idleFetch
  /\ op' = "-"
  /\ UNCHANGED <<authVars, draftVars, messages, hasMore, isLoading, loadingTimer,
                 initFetches, chanVars, store, notifVars, scrollVars, typingVars, now,
                 epoch, mounted, active, lastOffset>>

\* fetchMessages after its await, error: toast and setIsLoading(false)
moreFetchFailed ==
  /\ mounted
  /\ moreFetch.stage = "sent"
  /\ toasts < MaxToasts
  /\ toasts' = toasts + 1
  /\ isLoading' = FALSE
  /\ moreFetch' = idleFetch
  /\ scrollTop' = scrollEffect(scrollTop, messages, hasMore, FALSE)
  /\ op' = "-"
  /\ UNCHANGED <<authVars, draftVars, messages, hasMore, loadingTimer, initFetches,
                 chanVars, store, notifVars, raf, typingVars, now, epoch,
                 mounted, active, lastOffset>>

\* requestAnimationFrame(() => messagesDiv.scrollTop = scrollHeight - distanceFromBottom)
animationFrame ==
  /\ mounted
  /\ raf # NoRaf
  /\ scrollTop' = clampScroll(scrollHeight(messages, hasMore) - raf, messages, hasMore)
  /\ raf' = NoRaf
  /\ op' = "-"
  /\ UNCHANGED <<authVars, draftVars, listVars, chanVars, store, notifVars,
                 typingVars, now, toasts, epoch, mounted, active, lastOffset>>

\* setTimeout(() => setIsLoading(false), 1000); an animation frame that is
\* pending runs first
loadingTimeout ==
  /\ mounted
  /\ loadingTimer
  /\ raf = NoRaf
  /\ loadingTimer' = FALSE
  /\ isLoading' = FALSE
  /\ moreFetch' = idleFetch
  /\ scrollTop' = scrollEffect(scrollTop, messages, hasMore, FALSE)
  /\ op' = "-"
  /\ UNCHANGED <<authVars, draftVars, messages, hasMore, initFetches, chanVars,
                 store, notifVars, raf, typingVars, now, toasts, epoch,
                 mounted, active, lastOffset>>

\* the user scrolls the message container
userScroll(top) ==
  /\ mounted
  /\ top \in 0..maxScrollTop(messages, hasMore)
  /\ top # scrollTop
  /\ scrollTop' = top
  /\ op' = "-"
  /\ UNCHANGED <<authVars, draftVars, listVars, chanVars, store, notifVars, raf,
                 typingVars, now, toasts, epoch, mounted, active, lastOffset>>

(***************************************************************************)
(* The notification flag.                                                  *)
(***************************************************************************)
\* variant: the flag is kept in memory only, as the toggle of src/App.tsx does
setNotificationEnabled_memoryOnly(value) ==
  /\ mounted
  /\ Len(initFetches) < MaxInitFetches
  /\ isNotificationEnabled' = value
  /\ initFetches' = Append(initFetches, sentFetch)
  /\ chan' = "joining"
  /\ feed' = <<>>
  /\ active' = messagesRerun(active)
  /\ op' = "-"
  /\ UNCHANGED <<authVars, draftVars, messages, hasMore, isLoading, loadingTimer,
                 moreFetch, store, localStorage, scrollVars, typingVars, now, toasts,
                 epoch, mounted, lastOffset>>

\* setNotificationEnabled(value); the [isNotificationEnabled] effect then
\* removes the channel, requests the first page again and subscribes again
setNotificationEnabled(value) ==
  /\ mounted
  /\ Len(initFetches) < MaxInitFetches
  /\ isNotificationEnabled' = value
  /\ localStorage' = toString(value)
  /\ initFetches' = Append(initFetches, sentFetch)
  /\ chan' = "joining"
  /\ feed' = <<>>
  /\ active' = messagesRerun(active)
  /\ op' = "-"
  /\ UNCHANGED <<authVars, draftVars, messages, hasMore, isLoading, loadingTimer,
                 moreFetch, store, scrollVars, typingVars, now, toasts, epoch,
                 mounted, lastOffset>>

\* the header button: onClick={() => setNotificationEnabled(!isNotificationEnabled)}
toggleNotification == setNotificationEnabled(~isNotificationEnabled)

(***************************************************************************)
(* Typing indicators.                                                      *)
(***************************************************************************)
\* variant: an entry that exists is kept as it is
onTyping_firstKept(payload) ==
  /\ mounted
  /\ session # NoSession
  /\ typingUsers' = IF typingUsers[payload.user_id] # NoEntry THEN typingUsers
                    ELSE [typingUsers EXCEPT
                            ![payload.user_id] = [user_name |-> payload.user_name,
                                                  timestamp |-> now]]
  /\ op' = "onTyping"
  /\ UNCHANGED <<authVars, draftVars, listVars, chanVars, store, notifVars,
                 scrollVars, interval, now, toasts, epoch, mounted, active, lastOffset>>

\* the broadcast handler of the "typing" channel, subscribed while there is a
\* session: typingUsers[user_id] = { user_name, timestamp: Date.now() }
onTyping(payload) ==
  /\ mounted
  /\ session # NoSession
  /\ typingUsers' = [typingUsers EXCEPT
                       ![payload.user_id] = [user_name |-> payload.user_name,
                                             timestamp |-> now]]
  /\ op' = "onTyping"
  /\ UNCHANGED <<authVars, draftVars, listVars, chanVars, store, notifVars,
                 scrollVars, interval, now, toasts, epoch, mounted, active, lastOffset>>

\* the setInterval callback's filter: now - data.timestamp > TYPING_TIMEOUT
expired(entry, t) == t - entry.timestamp > TYPING_TIMEOUT

\* the setInterval callback, every 1000 ms while there is a session
sweep ==
  /\ mounted
  /\ interval # NoTimer
  /\ now = interval
  /\ typingUsers' = [u \in Users |->
                       IF typingUsers[u] # NoEntry /\ expired(typingUsers[u], now)
                       THEN NoEntry ELSE typingUsers[u]]
  /\ interval' = now + SWEEP_INTERVAL
  /\ op' = "-"
  /\ UNCHANGED <<authVars, draftVars, listVars, chanVars, store, notifVars,
                 scrollVars, now, toasts, epoch, mounted, active, lastOffset>>

\* 1000 ms pass; a timer that is due runs first
tick ==
  /\ now < MaxTime
  /\ interval = NoTimer \/ now < interval
  /\ now' = now + 1
  /\ op' = "-"
  /\ UNCHANGED <<authVars, draftVars, listVars, chanVars, store, notifVars,
                 scrollVars, typingVars, toasts, epoch, mounted, active, lastOffset>>

\* Object.keys(typingUsers)
typingKeys == {u \in Users : typingUsers[u] # NoEntry}

\* the names the "Typing Users" block renders
typingShown ==
  {typingUsers[u].user_name : u \in typingKeys} \
     (IF session = NoSession THEN {} ELSE {user_name(session)})

(***************************************************************************)
(* The page is loaded again: the component state is constructed anew, the  *)
(* callbacks of requests in flight are gone; localStorage, the provider's  *)
(* session and the table stay.                                             *)
(***************************************************************************)
reload ==
  /\ epoch < MaxReloads
  /\ epoch' = epoch + 1
  /\ session' = NoSession
  /\ getSessionPending' = TRUE
  /\ signOutPending' = FALSE
  /\ newMessage' = <<>>
  /\ messages' = <<>>
  /\ hasMore' = TRUE
  /\ isLoading' = FALSE
  /\ loadingTimer' = FALSE
  /\ initFetches' = <<sentFetch>>
  /\ moreFetch' = idleFetch
  /\ chan' = "joining"
  /\ feed' = <<>>
  /\ isNotificationEnabled' = initialNotification(localStorage)
  /\ scrollTop' = 0
  /\ raf' = NoRaf
  /\ typingUsers' = [u \in Users |-> NoEntry]
  /\ interval' = NoTimer
  /\ mounted' = TRUE
  /\ active' = mountEffects
  /\ lastOffset' = NoOffset
  /\ inserts' = <<>>
  /\ op' = "-"
  /\ UNCHANGED <<authSession, broadcasts, store, localStorage, now, toasts>>

\* the component is unmounted: the cleanups of the three effects run; state
\* updates of callbacks that are still to come are dropped
unmount ==
  /\ mounted
  /\ mounted' = FALSE
  /\ active' = sessionCleanup(messagesCleanup(authCleanup(active)), session)
  /\ interval' = NoTimer
  /\ chan' = "removed"
  /\ feed' = <<>>
  /\ op' = "-"
  /\ UNCHANGED <<authVars, draftVars, listVars, store, notifVars, scrollVars,
                 typingUsers, now, toasts, epoch, lastOffset>>

(***************************************************************************)
(* Specifications.  Next is the whole program.  Each property is stated   *)
(* under a specification that leaves out the inputs which write none of    *)
(* the variables the property reads.                                       *)
(***************************************************************************)
AuthNext ==
  \/ getSession
  \/ \E s \in Users \cup {NoSession} : onAuthStateChange(s)
  \/ \E failed \in BOOLEAN : handleLogin(failed)
  \/ handleLogout
  \/ signOutCompleted
  \/ signOutFailed

SendNext ==
  \/ \E v \in Drafts : inputChange(v)
  \/ \E t \in TEMPLATE_MESSAGES : templateClick(t)
  \/ broadcastSent
  \/ handleSendMessage
  \/ \E i \in DOMAIN inserts : execInsert(i)
  \/ \E i \in DOMAIN inserts : insertCompleted(i)
  \/ \E i \in DOMAIN inserts : insertFailed(i)

ListNext ==
  \/ \E u \in OtherUsers : otherInsert(u)
  \/ \E i \in DOMAIN initFetches : execInitFetch(i)
  \/ \E i \in DOMAIN initFetches : initFetchCompleted(i)
  \/ \E i \in DOMAIN initFetches : initFetchFailed(i)
  \/ channelJoined
  \/ onInsert
  \/ fetchMessages
  \/ execMoreFetch
  \/ moreFetchCompleted
  \/ moreFetchFailed
  \/ animationFrame
  \/ loadingTimeout
  \/ toggleNotification

TypingNext ==
  \/ \E u \in Users : onTyping(typingPayload(u))
  \/ sweep
  \/ tick

ScrollNext == \E top \in 0..(MaxStore * 3) : userScroll(top)

Next ==
  AuthNext \/ SendNext \/ ListNext \/ TypingNext \/ ScrollNext \/ reload \/ unmount

Spec == Init /\ [][Next]_vars

\* submitting: the session, the draft, the insert request
SendSpecNext == (\E s \in Users \cup {NoSession} : onAuthStateChange(s)) \/ SendNext
SpecSend == Init /\ [][SendSpecNext]_vars

\* logging in and out: authentication and what the form can issue
AuthSpecNext ==
  \/ AuthNext
  \/ \E v \in Drafts : inputChange(v)
  \/ broadcastSent
  \/ handleSendMessage
  \/ \E i \in DOMAIN inserts : insertFailed(i)
SpecAuth == Init /\ [][AuthSpecNext]_vars

\* the displayed list: fetches, the INSERT feed, the notification toggle
SpecList == Init /\ [][ListNext]_vars

\* the notification flag: the toggle with the requests it issues, and reloads
NotifyNext ==
  \/ toggleNotification
  \/ reload
  \/ \E i \in DOMAIN initFetches : execInitFetch(i)
  \/ \E i \in DOMAIN initFetches : initFetchCompleted(i)
  \/ \E i \in DOMAIN initFetches : initFetchFailed(i)
  \/ channelJoined
  \/ \E u \in OtherUsers : otherInsert(u)
  \/ onInsert
SpecNotify == Init /\ [][NotifyNext]_vars

\* the scroll position: the load-more fetch, the INSERT feed and the user's
\* scrolling
ScrollSpecNext ==
  \/ \E u \in OtherUsers : otherInsert(u)
  \/ \E i \in DOMAIN initFetches : execInitFetch(i)
  \/ \E i \in DOMAIN initFetches : initFetchCompleted(i)
  \/ channelJoined
  \/ onInsert
  \/ fetchMessages
  \/ execMoreFetch
  \/ moreFetchCompleted
  \/ moreFetchFailed
  \/ animationFrame
  \/ loadingTimeout
  \/ ScrollNext
SpecScroll == Init /\ [][ScrollSpecNext]_vars

\* typing indicators: authentication, the typing channel, the clock
TypingSpecNext == AuthNext \/ TypingNext
SpecTyping == Init /\ [][TypingSpecNext]_vars

\* the effects: what changes a dependency of an effect, the clock, unmounting
EffectsNext ==
  \/ AuthNext
  \/ toggleNotification
  \/ \E i \in DOMAIN initFetches : execInitFetch(i)
  \/ \E i \in DOMAIN initFetches : initFetchCompleted(i)
  \/ channelJoined
  \/ sweep
  \/ tick
  \/ unmount
  \/ reload
SpecEffects == Init /\ [][EffectsNext]_vars

\* the typing broadcast: the session, the input, the "typing" channel
BroadcastNext ==
  \/ \E s \in Users \cup {NoSession} : onAuthStateChange(s)
  \/ \E v \in Drafts : inputChange(v)
  \/ \E t \in TEMPLATE_MESSAGES : templateClick(t)
  \/ broadcastSent
  \/ TypingNext
SpecBroadcast == Init /\ [][BroadcastNext]_vars

\* the load-more fetch: the table, the initial load, the request, its two
\* callbacks.  The backend answers a request, a callback that is due runs: an
\* answered request is applied, a requested animation frame and a set timer
\* fire.
LoadMoreNext ==
  \/ \E u \in OtherUsers : otherInsert(u)
  \/ \E i \in DOMAIN initFetches : execInitFetch(i)
  \/ \E i \in DOMAIN initFetches : initFetchCompleted(i)
  \/ channelJoined
  \/ onInsert
  \/ fetchMessages
  \/ execMoreFetch
  \/ moreFetchCompleted
  \/ moreFetchFailed
  \/ animationFrame
  \/ loadingTimeout
SpecLoadMore ==
  /\ Init
  /\ [][LoadMoreNext]_vars
  /\ WF_vars(execMoreFetch)
  /\ WF_vars(moreFetchCompleted)
  /\ WF_vars(animationFrame)
  /\ WF_vars(loadingTimeout)

(***************************************************************************)
(* Properties.                                                             *)
(***************************************************************************)
\* the draft has a character that is not white space
HasNonBlank(draft) == \E k \in DOMAIN draft : draft[k] # " "

\* every variable but op
stateVars == <<authVars, draftVars, listVars, chanVars, store, notifVars, scrollVars,
               typingVars, now, toasts, epoch, mounted, active, lastOffset>>

\* C1: with a session and a draft that has a non-whitespace character, a step
\* of handleSendMessage adds exactly one insert request to the requests in
\* flight; its user_id is the session's user and its content is the draft.
C1_SubmitIssuesOneInsert ==
  [][(op' = "handleSendMessage" /\ session # NoSession /\ HasNonBlank(newMessage))
       => /\ Len(inserts') = Len(inserts) + 1
          /\ SubSeq(inserts', 1, Len(inserts)) = inserts
          /\ inserts'[Len(inserts')].stage = "sent"
          /\ inserts'[Len(inserts')].row.user_id = session
          /\ inserts'[Len(inserts')].row.content = newMessage]_vars

C1_Witness ==
  /\ op = "handleSendMessage"
  /\ session = "u2"
  /\ HasNonBlank(newMessage)
  /\ Len(inserts) = 1
  /\ inserts[1].stage = "sent"
  /\ inserts[1].row.user_id = "u2"
  /\ inserts[1].row.content = newMessage

\* C2: a step of handleSendMessage with a blank draft or without a session
\* changes nothing: no insert request, the same draft, the same list, the same
\* rest of the state.
C2_BlankSubmitChangesNothing ==
  [][(op' = "handleSendMessage" /\ (session = NoSession \/ ~HasNonBlank(newMessage)))
       => UNCHANGED stateVars]_vars

C2_Witness ==
  /\ op = "handleSendMessage"
  /\ session # NoSession
  /\ newMessage = <<" ">>
  /\ inserts = <<>>

\* C3: the displayed list is in non-decreasing created_at order in every
\* reachable state.
C3_DisplayedInOrder ==
  \A k \in 1..Len(messages) : \A l \in k..Len(messages) :
    messages[k].created_at <= messages[l].created_at

\* scrollHeight - scrollTop of the message container
distanceFromBottom == scrollHeight(messages, hasMore) - scrollTop

\* C4 (its last clause): after a load-more that prepended a page, the step in
\* which isLoading returns to false leaves the viewport's distance from the
\* bottom as it was.
C4_LoadingResetKeepsViewport ==
  [][(loadingTimer /\ ~loadingTimer' /\ moreFetch.stage = "applied"
        /\ moreFetch.offset # 0)
       => distanceFromBottom' = distanceFromBottom]_vars

\* C5: a load-more answered with fewer than MESSAGES_PER_PAGE rows sets hasMore
\* to false, and no step sets hasMore back to true.
C5_HasMoreStaysFalse ==
  [][/\ (moreFetch.stage = "done" /\ moreFetch'.stage = "applied"
           /\ Len(moreFetch.data) < MESSAGES_PER_PAGE) => ~hasMore'
     /\ ~hasMore => ~hasMore']_vars

C5_Witness ==
  /\ ~hasMore
  /\ ~loadMoreShown
  /\ moreFetch.stage = "idle"
  /\ isNotificationEnabled
  /\ Len(initFetches) = 1
  /\ messages # <<>>

\* C6: when the result of a message fetch, of the initial load as well as of a
\* load-more, has fewer rows than the page size, the load-more control is
\* hidden once the result is applied.
C6_ShortFetchHidesControl ==
  [][/\ \A i \in DOMAIN initFetches :
          (initFetches[i].stage = "done" /\ initFetches' = removeAt(initFetches, i)
             /\ Len(initFetches[i].data) < MESSAGES_PER_PAGE) => ~loadMoreShown'
     /\ (moreFetch.stage = "done" /\ moreFetch'.stage = "applied"
           /\ Len(moreFetch.data) < MESSAGES_PER_PAGE) => ~loadMoreShown']_vars

\* C7: a user whose typing event was recorded TYPING_TIMEOUT + SWEEP_INTERVAL
\* or longer ago has no entry in typingUsers and is not shown as typing (a
\* sweep that is due at this very instant may still have to run).
C7_TypingExpires ==
  \A u \in Users :
    (typingUsers[u] # NoEntry
       /\ now >= typingUsers[u].timestamp + TYPING_TIMEOUT + SWEEP_INTERVAL)
      => interval = now

\* C8: the stored flag equals the flag in memory (false while nothing is
\* stored), and a reload starts from the value the flag had.
C8_NotificationPersists ==
  /\ [](isNotificationEnabled = (localStorage = "true"))
  /\ [][epoch' # epoch => isNotificationEnabled' = isNotificationEnabled]_vars

C8_Witness ==
  /\ epoch = 1
  /\ isNotificationEnabled
  /\ localStorage = "true"
  /\ messages = <<>>
  /\ initFetches = <<sentFetch>>
  /\ chan = "joining"

\* C9: when signOut() has succeeded the session is null; while the session is
\* null the input and the submit button are disabled and no step issues an
\* insert request or a typing broadcast.
C9_LoggedOutIssuesNothing ==
  /\ [](session = NoSession => inputDisabled)
  /\ [][/\ (signOutPending /\ ~signOutPending' /\ toasts' = toasts)
             => session' = NoSession
        /\ session = NoSession
             => Len(inserts') <= Len(inserts) /\ Len(broadcasts') <= Len(broadcasts)]_vars

C9_Witness ==
  /\ session = NoSession
  /\ authSession = NoSession
  /\ ~signOutPending
  /\ ~getSessionPending
  /\ HasNonBlank(newMessage)
  /\ op = "handleSendMessage"
  /\ inserts = <<>>

\* the list holds the newest MESSAGES_PER_PAGE rows of the table (all of them
\* if there are fewer), oldest first
IsNewestPageAscending(list, table) ==
  /\ Len(list) = Min(MESSAGES_PER_PAGE, Len(table))
  /\ \A k \in 1..Len(list) : list[k] \in rowsOf(table)
  /\ \A k \in 1..Len(list) : \A l \in (k + 1)..Len(list) :
       list[k].created_at < list[l].created_at
  /\ \A r \in rowsOf(table) \ rowsOf(list) : \A k \in 1..Len(list) :
       r.created_at <= list[k].created_at

\* C10: when the initial fetch succeeds, the displayed list becomes the newest
\* rows (at most MESSAGES_PER_PAGE) the table had when the query ran, in
\* ascending created_at order.
C10_InitialPageNewestAscending ==
  [][\A i \in DOMAIN initFetches :
       (initFetches[i].stage = "done" /\ initFetches' = removeAt(initFetches, i))
         => IsNewestPageAscending(messages', SubSeq(store, 1, initFetches[i].asOf))]_vars

C10_Witness ==
  /\ initFetches = <<>>
  /\ Len(store) = MaxStore
  /\ Len(messages) = MESSAGES_PER_PAGE
  /\ messages[1].id = MaxStore - MESSAGES_PER_PAGE + 1
  /\ messages[MESSAGES_PER_PAGE].id = MaxStore

\* the insert requests the backend has not answered
sentInserts(reqs) == {i \in DOMAIN reqs : reqs[i].stage = "sent"}

\* C11: the error branch of handleSendMessage raises exactly one notification,
\* leaves the draft and the displayed list as they were and takes its request
\* out of the requests in flight without issuing another; only a step of
\* handleSendMessage adds an insert request.
C11_InsertFailureOnlyNotifies ==
  [][/\ op' = "insertFailed"
          => /\ toasts' = toasts + 1
             /\ newMessage' = newMessage
             /\ messages' = messages
             /\ Len(inserts') = Len(inserts) - 1
             /\ Cardinality(sentInserts(inserts')) <= Cardinality(sentInserts(inserts))
     /\ Len(inserts') > Len(inserts) => op' = "handleSendMessage"]_vars

C11_Witness ==
  /\ op = "insertFailed"
  /\ toasts = 1
  /\ session # NoSession
  /\ HasNonBlank(newMessage)
  /\ inserts = <<>>

\* C12: the error branch of a load-more raises one notification, leaves the
\* displayed list and hasMore as they were, resets isLoading, so that the
\* control is enabled again, and leaves no request in flight; a load-more
\* request is only issued from an enabled control.
C12_LoadMoreFailureResets ==
  [][/\ (moreFetch.stage = "sent" /\ moreFetch'.stage = "idle")
          => /\ toasts' = toasts + 1
             /\ messages' = messages
             /\ hasMore' = hasMore
             /\ ~isLoading'
             /\ loadMoreEnabled'
             /\ moreFetch' = idleFetch
     /\ (moreFetch.stage # "sent" /\ moreFetch'.stage = "sent") => loadMoreEnabled]_vars

\* the one initial request is still in flight, so the notification is the
\* load-more's
C12_Witness ==
  /\ toasts = 1
  /\ localStorage = NoItem
  /\ initFetches = <<sentFetch>>
  /\ moreFetch = idleFetch
  /\ loadMoreEnabled
  /\ messages # <<>>

\* C13: at most one "messages" channel, one "typing" channel, one auth
\* listener and one sweep timer are set up and not cleaned up; once the
\* component is unmounted there is none.
C13_AtMostOneOfEach ==
  /\ active.messagesChannel <= 1
  /\ active.typingChannel <= 1
  /\ active.authListener <= 1
  /\ active.interval <= 1
  /\ ~mounted => active = noneActive

\* unmounted with a session, after the session object and the notification
\* flag have changed
C13_Witness ==
  /\ ~mounted
  /\ session = "u2"
  /\ isNotificationEnabled
  /\ active = noneActive
  /\ interval = NoTimer

\* the list is in strictly ascending created_at order
IsAscending(list) ==
  \A k \in 1..Len(list) : \A l \in (k + 1)..Len(list) :
    list[k].created_at < list[l].created_at

\* the rows of the table between the last row of `older` and the first row of
\* `newer`
rowsBetween(table, older, newer) ==
  {r \in rowsOf(table) : /\ older[Len(older)].created_at < r.created_at
                         /\ r.created_at < newer[1].created_at}

\* C14: when the result of a load-more issued with k > 0 messages displayed is
\* applied to a list in ascending order, the rows added stand before the rows
\* displayed so far, which stay as they were; the rows added are in ascending
\* order and older than every row displayed so far (no overlap), and no row
\* of the table lies between them and the rows displayed so far (no gap).
C14_LoadMoreExtendsByNextPage ==
  [][(moreFetch.stage = "done" /\ moreFetch'.stage = "applied" /\ moreFetch.offset # 0
        /\ messages # <<>> /\ IsAscending(messages))
       => LET added == SubSeq(messages', 1, Len(messages') - Len(messages))
          IN /\ Len(messages') >= Len(messages)
             /\ messages' = added \o messages
             /\ IsAscending(messages')
             /\ added # <<>> => rowsBetween(store, added, messages) = {}]_vars

\* C15: the offset of a load-more that succeeds is greater than the offset of
\* the load-more that succeeded before it on the same page.
C15_OffsetsIncrease ==
  [][(moreFetch.stage = "done" /\ moreFetch'.stage = "applied"
        /\ lastOffset # NoOffset)
       => moreFetch.offset > lastOffset]_vars

\* C16: a change event of the input with a session adds exactly one typing
\* broadcast, which carries the session user's id and name; without a session
\* no step adds a broadcast; a received typing event sets the sender's entry
\* of typingUsers to the event's name and the time of receipt and leaves
\* every other entry as it was, so that the one entry a user has carries the
\* latest receipt.
C16_TypingBroadcastAndReceipt ==
  [][/\ (op' = "inputChange" /\ session # NoSession)
          => broadcasts' = Append(broadcasts, [user_id |-> session,
                                               user_name |-> user_name(session)])
     /\ session = NoSession => Len(broadcasts') <= Len(broadcasts)
     /\ op' = "onTyping"
          => \E u \in Users :
               typingUsers' = [typingUsers EXCEPT
                                 ![u] = [user_name |-> user_name(u), timestamp |-> now]]]_vars

\* u1 has typed and its broadcast is on the way; an event of u2 came in at 2
C16_Witness ==
  /\ op = "onTyping"
  /\ session = "u1"
  /\ broadcasts = <<[user_id |-> "u1", user_name |-> "alice"]>>
  /\ now = 2
  /\ typingUsers["u2"] = [user_name |-> "bob", timestamp |-> 2]
  /\ typingUsers["u1"] = NoEntry

\* C17: no two positions of the displayed list hold the same message id.
C17_NoDuplicateIds ==
  \A k \in 1..Len(messages) : \A l \in 1..Len(messages) :
    k # l => messages[k].id # messages[l].id

\* the ids of the rows of a list
idsOf(list) == {list[k].id : k \in 1..Len(list)}

\* C18: on one page load, every message that is displayed before a step is
\* displayed after it.
C18_DisplayedStaysDisplayed ==
  [][epoch' = epoch => idsOf(messages) \subseteq idsOf(messages')]_vars

\* C19: while a load-more request is sent or answered and not yet applied,
\* isLoading is true; while isLoading is true the control is disabled; a
\* request is issued only when none is in progress, and isLoading is true
\* after the step that issues it; isLoading always returns to false.
C19_OneLoadMoreInFlight ==
  /\ [](moreFetch.stage \in {"sent", "done"} => isLoading)
  /\ [](isLoading => ~loadMoreEnabled)
  /\ [][(moreFetch'.stage = "sent" /\ moreFetch' # moreFetch)
          => moreFetch.stage = "idle" /\ isLoading']_vars
  /\ (isLoading ~> ~isLoading)

\* a load-more at offset MESSAGES_PER_PAGE has succeeded and its timer has run
C19_Witness ==
  /\ lastOffset = MESSAGES_PER_PAGE
  /\ Len(messages) > MESSAGES_PER_PAGE
  /\ moreFetch = idleFetch
  /\ ~isLoading
  /\ ~loadingTimer

\* C20: when an insert request has succeeded and its continuation runs, the
\* draft is cleared if it still is the text that was sent, and is left as it
\* is if the user has put another text into it in the meantime.
C20_OnlySentTextDiscarded ==
  [][\A i \in DOMAIN inserts :
       (inserts[i].stage = "done" /\ inserts' = removeAt(inserts, i)
          /\ op' # "insertFailed" /\ epoch' = epoch)
         => newMessage' = IF newMessage = inserts[i].row.content THEN <<>>
                          ELSE newMessage]_vars

====
